---------------------------- MODULE Spec2Model ----------------------------
(***************************************************************************)
(* A model of the fake NVML shim (src/fake_nvml.c): the initialization     *)
(* flag g_initialized, the registry g_fake_gpus, and one action per        *)
(* exported entry point.  A caller drives the shim with calls whose        *)
(* arguments are drawn from small sets; the caller's memory (a character   *)
(* buffer, the integer output locations, its handle variable) is part of   *)
(* the state so that what each call writes can be observed.                *)
(*                                                                         *)
(* Strings are sequences of character codes; a char array of n bytes is a  *)
(* function on 1..n, byte k of the model being offset k-1 of the array.    *)
(***************************************************************************)
EXTENDS Integers, Sequences, FiniteSets, TLC

\* ------------------------------------------------------------ bounds
\* Largest `length` argument a caller passes to a string-output operation.
MaxLen == 17
\* The number of successful nvmlInit_v2 calls the model follows.
MaxSessions == 2

\* ------------------------------------------------- nvmlReturn_t (l.26-40)
NVML_SUCCESS == 0
NVML_ERROR_UNINITIALIZED == 1
NVML_ERROR_INVALID_ARGUMENT == 2
NVML_ERROR_NOT_SUPPORTED == 3
NVML_ERROR_NO_PERMISSION == 4
NVML_ERROR_ALREADY_INITIALIZED == 5
NVML_ERROR_NOT_FOUND == 6
NVML_ERROR_INSUFFICIENT_SIZE == 7
NVML_ERROR_INSUFFICIENT_POWER == 8
NVML_ERROR_DRIVER_NOT_LOADED == 9
NVML_ERROR_TIMEOUT == 10
NVML_ERROR_FUNCTION_NOT_FOUND == 13
NVML_ERROR_UNKNOWN == 999

\* The codes of the enumeration.
nvmlReturn_t ==
    { NVML_SUCCESS, NVML_ERROR_UNINITIALIZED, NVML_ERROR_INVALID_ARGUMENT,
      NVML_ERROR_NOT_SUPPORTED, NVML_ERROR_NO_PERMISSION,
      NVML_ERROR_ALREADY_INITIALIZED, NVML_ERROR_NOT_FOUND,
      NVML_ERROR_INSUFFICIENT_SIZE, NVML_ERROR_INSUFFICIENT_POWER,
      NVML_ERROR_DRIVER_NOT_LOADED, NVML_ERROR_TIMEOUT,
      NVML_ERROR_FUNCTION_NOT_FOUND, NVML_ERROR_UNKNOWN }

NVML_BRAND_TESLA == 2
NVML_FEATURE_DISABLED == 0

NVML_DEVICE_NAME_BUFFER_SIZE == 64
NVML_DEVICE_UUID_BUFFER_SIZE == 80
NVML_DEVICE_PCI_BUS_ID_BUFFER_SIZE == 32

FAKE_GPU_COUNT == 4
\* "NVIDIA Tesla T4"
FAKE_GPU_NAME == <<78, 86, 73, 68, 73, 65, 32, 84, 101, 115, 108, 97, 32, 84, 52>>
\* "535.104.05"
FAKE_DRIVER_VERSION == <<53, 51, 53, 46, 49, 48, 52, 46, 48, 53>>
FAKE_CUDA_VERSION == 12020

\* 0x1EB8 and 0x12A210DE
PciDeviceIdValue == 7864
PciSubSystemIdValue == 312610014

\* ------------------------------------------------------- C machine model
\* An unsigned int is 32 bits wide. Its value is kept as two 16-bit halves,
\* value = hi * 2^16 + lo, so that 2^32 - 1 is representable.
HalfWord == 2 ^ 16

\* The conversion of an int to unsigned int (reduction modulo 2^32).
ToUnsigned(i) == [hi |-> (i \div HalfWord) % HalfWord, lo |-> i % HalfWord]

\* u >= v and u > v on unsigned ints.
UGe(u, v) == u.hi > v.hi \/ (u.hi = v.hi /\ u.lo >= v.lo)
UGt(u, v) == u.hi > v.hi \/ (u.hi = v.hi /\ u.lo > v.lo)

\* Is the unsigned u a subscript below n (n < 2^16)?
UBelow(u, n) == u.hi = 0 /\ u.lo < n

NULL == 0
\* Where the linker places g_fake_gpus, and sizeof(fakeGpu_t) on LP64:
\* 4 (index) + 64 + 80 + 52 (pci) + 8 (handle).
GpuBase == 4096
SizeofFakeGpu == 208

\* &g_fake_gpus[i]
AddrOf(i) == GpuBase + i * SizeofFakeGpu

GpuIndexes == 0 .. (FAKE_GPU_COUNT - 1)

\* A pointer that GetHandleByIndex never issued: it points into the middle of
\* record 0.
ForgedHandle == GpuBase + 4

Min(a, b) == IF a < b THEN a ELSE b

\* A char array of n zero bytes (static storage).
Zeros(n) == [k \in 1 .. n |-> 0]

\* The string literal s as it lies in memory: its characters and a NUL.
Literal(s) == s \o <<0>>

\* strlen: the number of bytes before the first NUL of the array a (the whole
\* array when it holds none).
Strlen(a) ==
    IF \E k \in 1 .. Len(a) : a[k] = 0
    THEN (CHOOSE k \in 1 .. Len(a) : a[k] = 0 /\ \A j \in 1 .. (k - 1) : a[j] # 0) - 1
    ELSE Len(a)

\* The C string held by the array a.
CString(a) == SubSeq(a, 1, Strlen(a))

\* printf's %d of a non-negative int.
RECURSIVE FormatD(_)
FormatD(n) ==
    IF n < 10 THEN <<48 + n>> ELSE FormatD(n \div 10) \o <<48 + (n % 10)>>

\* snprintf(dst, size, ...) of the formatted text s: at most size-1 characters
\* and then a NUL; the bytes after the NUL keep their value.
Snprintf(dst, size, s) ==
    LET n == Min(Len(s), size - 1) IN
    [k \in 1 .. Len(dst) |->
        IF size = 0 THEN dst[k]
        ELSE IF k <= n THEN s[k]
        ELSE IF k = n + 1 THEN 0
        ELSE dst[k]]

\* Mutant: a terminator is forced at dst[n], one byte past the n bytes.
Strncpy_TerminatesPastEnd(dst, src, n) ==
    LET l == Strlen(src) IN
    [k \in 1 .. Len(dst) |->
        IF k > n + 1 THEN dst[k]
        ELSE IF k = n + 1 THEN 0
        ELSE IF k <= l THEN src[k]
        ELSE 0]

\* strncpy(dst, src, n): exactly n bytes are written; the characters of src up
\* to its NUL, then NUL padding. No NUL is written when strlen(src) >= n.
Strncpy(dst, src, n) ==
    LET l == Strlen(src) IN
    [k \in 1 .. Len(dst) |->
        IF k > n THEN dst[k]
        ELSE IF k <= l THEN src[k]
        ELSE 0]

\* ------------------------------------------------------------- registry
\* A fakeGpu_t of static storage before any initialization.
ZeroGpu ==
    [ index  |-> 0,
      name   |-> Zeros(NVML_DEVICE_NAME_BUFFER_SIZE),
      uuid   |-> Zeros(NVML_DEVICE_UUID_BUFFER_SIZE),
      pci    |-> [ busId          |-> Zeros(NVML_DEVICE_PCI_BUS_ID_BUFFER_SIZE),
                   domain         |-> 0,
                   bus            |-> 0,
                   device         |-> 0,
                   pciDeviceId    |-> 0,
                   pciSubSystemId |-> 0 ],
      handle |-> NULL ]

\* "GPU-%d-FAKE-UUID"
UuidText(i) ==
    <<71, 80, 85, 45>> \o FormatD(i)
        \o <<45, 70, 65, 75, 69, 45, 85, 85, 73, 68>>

\* "00000000:0%d:00.0"
BusIdText(b) ==
    <<48, 48, 48, 48, 48, 48, 48, 48, 58, 48>> \o FormatD(b)
        \o <<58, 48, 48, 46, 48>>

\* Mutant: pci.bus is numbered from 0 while the bus-id string counts from 1.
InitGpu_BusFromZero(gpu, i) ==
    [ index  |-> i,
      name   |-> Snprintf(gpu.name, NVML_DEVICE_NAME_BUFFER_SIZE, FAKE_GPU_NAME),
      uuid   |-> Snprintf(gpu.uuid, NVML_DEVICE_UUID_BUFFER_SIZE, UuidText(i)),
      pci    |-> [ busId          |-> Snprintf(gpu.pci.busId,
                                               NVML_DEVICE_PCI_BUS_ID_BUFFER_SIZE,
                                               BusIdText(i + 1)),
                   domain         |-> 0,
                   bus            |-> i,
                   device         |-> 0,
                   pciDeviceId    |-> PciDeviceIdValue,
                   pciSubSystemId |-> PciSubSystemIdValue ],
      handle |-> AddrOf(i) ]

\* Mutant: index is accumulated (+=) instead of assigned.
InitGpu_Accumulates(gpu, i) ==
    [ index  |-> gpu.index + i,
      name   |-> Snprintf(gpu.name, NVML_DEVICE_NAME_BUFFER_SIZE, FAKE_GPU_NAME),
      uuid   |-> Snprintf(gpu.uuid, NVML_DEVICE_UUID_BUFFER_SIZE, UuidText(i)),
      pci    |-> [ busId          |-> Snprintf(gpu.pci.busId,
                                               NVML_DEVICE_PCI_BUS_ID_BUFFER_SIZE,
                                               BusIdText(i + 1)),
                   domain         |-> 0,
                   bus            |-> i + 1,
                   device         |-> 0,
                   pciDeviceId    |-> PciDeviceIdValue,
                   pciSubSystemId |-> PciSubSystemIdValue ],
      handle |-> AddrOf(i) ]

\* Mutant: the records are numbered from 1.
InitGpu_OneBased(gpu, i) ==
    [ index  |-> i + 1,
      name   |-> Snprintf(gpu.name, NVML_DEVICE_NAME_BUFFER_SIZE, FAKE_GPU_NAME),
      uuid   |-> Snprintf(gpu.uuid, NVML_DEVICE_UUID_BUFFER_SIZE, UuidText(i)),
      pci    |-> [ busId          |-> Snprintf(gpu.pci.busId,
                                               NVML_DEVICE_PCI_BUS_ID_BUFFER_SIZE,
                                               BusIdText(i + 1)),
                   domain         |-> 0,
                   bus            |-> i + 1,
                   device         |-> 0,
                   pciDeviceId    |-> PciDeviceIdValue,
                   pciSubSystemId |-> PciSubSystemIdValue ],
      handle |-> AddrOf(i) ]

\* One iteration of the population loop of nvmlInit_v2 (l.112-121).
InitGpu(gpu, i) ==
    [ index  |-> i,
      name   |-> Snprintf(gpu.name, NVML_DEVICE_NAME_BUFFER_SIZE, FAKE_GPU_NAME),
      uuid   |-> Snprintf(gpu.uuid, NVML_DEVICE_UUID_BUFFER_SIZE, UuidText(i)),
      pci    |-> [ busId          |-> Snprintf(gpu.pci.busId,
                                               NVML_DEVICE_PCI_BUS_ID_BUFFER_SIZE,
                                               BusIdText(i + 1)),
                   domain         |-> 0,
                   bus            |-> i + 1,
                   device         |-> 0,
                   pciDeviceId    |-> PciDeviceIdValue,
                   pciSubSystemId |-> PciSubSystemIdValue ],
      handle |-> AddrOf(i) ]

\* for (int i = 0; i < FAKE_GPU_COUNT; ++i) { ... } from i on.
RECURSIVE InitLoop(_, _)
InitLoop(gpus, i) ==
    IF i < FAKE_GPU_COUNT
    THEN InitLoop([gpus EXCEPT ![i] = InitGpu(gpus[i], i)], i + 1)
    ELSE gpus

\* ------------------------------------------------------------ the state
VARIABLES
    g_initialized,  \* static int g_initialized
    g_fake_gpus,    \* static fakeGpu_t g_fake_gpus[FAKE_GPU_COUNT]
    crashed,        \* the process was killed by a fault
    op,             \* the entry point called last
    args,           \* its arguments
    ret,            \* <<code>>: the nvmlReturn_t it returned; <<>>: none
    label,          \* the string nvmlErrorString returned ("" when not called)
    buf,            \* the caller's char buffer after the call
    bufWrites,      \* the offsets (1-based) of buf the call wrote
    outA,           \* first integer output location: <<>> unwritten, <<v>>
    outB,           \* second integer output location
    outPci,         \* the caller's nvmlPciInfo_t: <<>> unwritten, <<record>>
    dev,            \* the caller's nvmlDevice_t variable
    regRead,        \* the subscripts of g_fake_gpus the call accessed
    session,        \* history: number of successful nvmlInit_v2 calls
    devSession,     \* history: session in which dev was written (0: never)
    devIndex,       \* history: the index dev was requested for
    twice,          \* history: the call before the last was the same
                    \* lifecycle operation and returned NVML_SUCCESS
    scen            \* history: progress through the enumeration scenario

\* The state of callers on several threads (the concurrent specification).
VARIABLES
    thr,            \* per thread: the call it is in and where it stands
    gen             \* history: number of stores to g_initialized so far

\* The state of the kernel module (src/fake_nvidia_driver.c).
VARIABLES
    procfs,             \* the nodes that exist under /proc
    g_proc_nvidia_dir,  \* static struct proc_dir_entry *g_proc_nvidia_dir
    modState,           \* "unloaded" or "loaded"
    initRet,            \* <<r>>: what the last fake_nvidia_init returned
    loads,              \* history: number of fake_nvidia_init calls
    rd                  \* the open version file: offset, last read

callerVars ==
    << crashed, op, args, ret, label, buf, bufWrites, outA, outB, outPci,
       dev, regRead, session, devSession, devIndex, twice, scen >>

concVars == << thr, gen >>

drvVars == << procfs, g_proc_nvidia_dir, modState, initRet, loads, rd >>

vars ==
    << g_initialized, g_fake_gpus, crashed, op, args, ret, label, buf,
       bufWrites, outA, outB, outPci, dev, regRead, session, devSession,
       devIndex, twice, scen, thr, gen, procfs, g_proc_nvidia_dir, modState,
       initRet, loads, rd >>

\* The threads of the process that call the shim concurrently.
Threads == {1, 2}

\* A thread that is in no call.
IdleThread ==
    [ pc |-> "idle", op |-> "none", i |-> 0, stored |-> FALSE, index |-> 0,
      ret |-> <<>>, out |-> <<>>, gen0 |-> 0, flag0 |-> 0 ]

\* No thread is in a call.
ConcInit == thr = [t \in Threads |-> IdleThread] /\ gen = 0

\* A struct proc_dir_entry pointer is the path of its node; NoEntry is the
\* null pointer.
NoEntry == ""

\* The module is not loaded and has created nothing.
DriverInit ==
    /\ procfs = {}
    /\ g_proc_nvidia_dir = NoEntry
    /\ modState = "unloaded"
    /\ initRet = <<>>
    /\ loads = 0
    /\ rd = [pos |-> 0, ret |-> <<>>, data |-> <<>>]

\* The caller's buffer is one byte larger than any length it passes, and holds
\* 'X' in every byte before each call.
BufCap == MaxLen + 1
FreshBuf == [k \in 1 .. BufCap |-> 88]

\* Pointer arguments to caller memory: TRUE points to the caller's location,
\* FALSE is the null pointer.
Pointers == BOOLEAN
\* The lengths a caller passes: none, one byte, the scenario's 4 bytes, and
\* lengths just below, at and above the lengths of the source strings (10, 15
\* and 15 characters).
Lengths == {0, 1, 4, 10, 11, 15, 16, MaxLen}
IndexArgs == (-1) .. (FAKE_GPU_COUNT + 1)
DeviceArgs == {dev, NULL, ForgedHandle}
CodeArgs == ((-1) .. 14) \cup {998, 999, 1000}

\* What a call that returns code c and writes nothing leaves behind.
Ret(c) ==
    [ ret |-> <<c>>, label |-> "", buf |-> FreshBuf, bufWrites |-> {},
      outA |-> <<>>, outB |-> <<>>, outPci |-> <<>>, devOut |-> <<>>,
      regRead |-> {}, crashed |-> FALSE ]

\* The call faulted: nothing is returned.
Crash == [Ret(0) EXCEPT !.ret = <<>>, !.crashed = TRUE]

\* Outcomes S of a call; when it dereferenced a pointer that is not valid
\* (undefined behaviour) it may also fault.
WithUB(invalid, S) == IF invalid THEN S \cup {Crash} ELSE S

Init ==
    /\ g_initialized = 0
    /\ g_fake_gpus = [i \in GpuIndexes |-> ZeroGpu]
    /\ crashed = FALSE
    /\ op = "none"
    /\ args = <<>>
    /\ ret = <<>>
    /\ label = ""
    /\ buf = FreshBuf
    /\ bufWrites = {}
    /\ outA = <<>>
    /\ outB = <<>>
    /\ outPci = <<>>
    /\ dev = NULL
    /\ regRead = {}
    /\ session = 0
    /\ devSession = 0
    /\ devIndex = ToUnsigned(0)
    /\ twice = FALSE
    /\ scen = 0
    /\ ConcInit
    /\ DriverInit

\* The scenario Initialize, GetDeviceCount, GetHandleByIndex(0),
\* GetDeviceName(handle, 4 bytes), Shutdown, GetDeviceCount: scen counts how
\* many of its calls have just been made in this order, starting from the
\* uninitialized state. It follows the calls and their arguments only.
NextScen(o, a) ==
    IF o = "nvmlInit_v2" /\ g_initialized = 0 THEN 1
    ELSE IF scen = 1 /\ o = "nvmlDeviceGetCount_v2" /\ a.deviceCount THEN 2
    ELSE IF scen = 2 /\ o = "nvmlDeviceGetHandleByIndex_v2"
                /\ a.index = ToUnsigned(0) /\ a.device THEN 3
    ELSE IF scen = 3 /\ o = "nvmlDeviceGetName"
                /\ a.device = dev /\ a.name /\ a.length = 4 THEN 4
    ELSE IF scen = 4 /\ o = "nvmlShutdown" THEN 5
    ELSE IF scen = 5 /\ o = "nvmlDeviceGetCount_v2" /\ a.deviceCount THEN 6
    ELSE 0

\* The caller makes call o(a) and observes outcome r.
Observe(o, a, r) ==
    /\ ~crashed
    /\ op' = o
    /\ args' = a
    /\ ret' = r.ret
    /\ label' = r.label
    /\ buf' = r.buf
    /\ bufWrites' = r.bufWrites
    /\ outA' = r.outA
    /\ outB' = r.outB
    /\ outPci' = r.outPci
    /\ regRead' = r.regRead
    /\ crashed' = r.crashed
    /\ twice' = (/\ o \in {"nvmlInit_v2", "nvmlShutdown"}
                  /\ op = o
                  /\ ret = <<NVML_SUCCESS>>)
    /\ scen' = NextScen(o, a)
    /\ UNCHANGED <<concVars, drvVars>>

\* ------------------------------------------------- nvmlInit_v2 (l.108-126)
\* Mutant: the registry is cleared before the flag is tested.
Init_v2_ClearsFirst ==
    IF g_initialized # 0
    THEN [ret |-> NVML_ERROR_ALREADY_INITIALIZED,
          gpus |-> [i \in GpuIndexes |-> ZeroGpu], flag |-> g_initialized]
    ELSE [ret |-> NVML_SUCCESS,
          gpus |-> InitLoop([i \in GpuIndexes |-> ZeroGpu], 0), flag |-> 1]

\* The return code and the new values of the registry and of the flag.
Init_v2 ==
    IF g_initialized # 0
    THEN [ret |-> NVML_ERROR_ALREADY_INITIALIZED,
          gpus |-> g_fake_gpus, flag |-> g_initialized]
    ELSE [ret |-> NVML_SUCCESS,
          gpus |-> InitLoop(g_fake_gpus, 0), flag |-> 1]

nvmlInit_v2 ==
    /\ g_initialized # 0 \/ session < MaxSessions
    /\ Observe("nvmlInit_v2", <<>>, Ret(Init_v2.ret))
    /\ g_fake_gpus' = Init_v2.gpus
    /\ g_initialized' = Init_v2.flag
    /\ session' = IF Init_v2.ret = NVML_SUCCESS THEN session + 1 ELSE session
    /\ UNCHANGED <<dev, devSession, devIndex>>

\* ------------------------------------------------ nvmlShutdown (l.128-134)
\* Mutant: the flag is not cleared.
Shutdown_KeepsFlag ==
    IF g_initialized = 0
    THEN [ret |-> NVML_ERROR_UNINITIALIZED, flag |-> g_initialized]
    ELSE [ret |-> NVML_SUCCESS, flag |-> g_initialized]

Shutdown ==
    IF g_initialized = 0
    THEN [ret |-> NVML_ERROR_UNINITIALIZED, flag |-> g_initialized]
    ELSE [ret |-> NVML_SUCCESS, flag |-> 0]

nvmlShutdown ==
    /\ Observe("nvmlShutdown", <<>>, Ret(Shutdown.ret))
    /\ g_initialized' = Shutdown.flag
    /\ UNCHANGED <<g_fake_gpus, session, dev, devSession, devIndex>>

\* --------------------------------------------- nvmlErrorString (l.136-152)
ErrorLabel(result) ==
    CASE result = NVML_SUCCESS -> "Success"
      [] result = NVML_ERROR_UNINITIALIZED -> "Uninitialized"
      [] result = NVML_ERROR_INVALID_ARGUMENT -> "Invalid Argument"
      [] result = NVML_ERROR_NOT_SUPPORTED -> "Not Supported"
      [] result = NVML_ERROR_NO_PERMISSION -> "No Permission"
      [] result = NVML_ERROR_ALREADY_INITIALIZED -> "Already Initialized"
      [] result = NVML_ERROR_NOT_FOUND -> "Not Found"
      [] result = NVML_ERROR_INSUFFICIENT_SIZE -> "Insufficient Size"
      [] result = NVML_ERROR_DRIVER_NOT_LOADED -> "Driver Not Loaded"
      [] result = NVML_ERROR_FUNCTION_NOT_FOUND -> "Function Not Found"
      [] OTHER -> "Unknown Error"

\* Mutant: the flag is checked, as in the query operations.
ErrorString_ChecksFlag(result) ==
    IF g_initialized = 0 THEN "Uninitialized" ELSE ErrorLabel(result)

ErrorString(result) == ErrorLabel(result)

nvmlErrorString ==
    \E result \in CodeArgs :
        /\ Observe("nvmlErrorString", [result |-> result],
                   [Ret(0) EXCEPT !.ret = <<>>, !.label = ErrorString(result)])
        /\ UNCHANGED <<g_initialized, g_fake_gpus, session, dev, devSession,
                       devIndex>>

\* ------------------------------------------------- access through pointers
\* A store of the call's result through a null output pointer is undefined:
\* it faults, or lands in a page mapped at address 0 that the caller's
\* locations do not show.
NullStore(r) == {Crash, r}

\* Does device point to an element of g_fake_gpus?
IsGpuAddr(device) == \E i \in GpuIndexes : device = AddrOf(i)

IndexOfAddr(device) == (device - GpuBase) \div SizeofFakeGpu

\* What memory that is no fakeGpu_t may hold when it is read as one.
WildGpus ==
    { ZeroGpu,
      [ZeroGpu EXCEPT !.index = 9,
                      !.name = [k \in 1 .. NVML_DEVICE_NAME_BUFFER_SIZE |->
                                    IF k <= 2 THEN 63 ELSE 0],
                      !.uuid = [k \in 1 .. NVML_DEVICE_UUID_BUFFER_SIZE |->
                                    IF k <= 2 THEN 63 ELSE 0]] }

\* fakeGpu_t* gpu = (fakeGpu_t*)device; the records gpu-> may read, each with
\* the registry indexes the read touches.
Deref(device) ==
    IF IsGpuAddr(device)
    THEN {[gpu |-> g_fake_gpus[IndexOfAddr(device)], at |-> {ToUnsigned(IndexOfAddr(device))}]}
    ELSE {[gpu |-> w, at |-> {}] : w \in WildGpus}

\* ---------------------------------- nvmlSystemGetDriverVersion (l.154-160)
SystemGetDriverVersion(version, length) ==
    IF g_initialized = 0 THEN {Ret(NVML_ERROR_UNINITIALIZED)}
    ELSE IF ~version THEN NullStore(Ret(NVML_SUCCESS))
    ELSE {[Ret(NVML_SUCCESS) EXCEPT
              !.buf = Strncpy(FreshBuf, Literal(FAKE_DRIVER_VERSION), length),
              !.bufWrites = 1 .. length]}

nvmlSystemGetDriverVersion ==
    \E version \in Pointers, length \in Lengths :
      \E r \in SystemGetDriverVersion(version, length) :
        /\ Observe("nvmlSystemGetDriverVersion",
                   [version |-> version, length |-> length], r)
        /\ UNCHANGED <<g_initialized, g_fake_gpus, session, dev, devSession,
                       devIndex>>

\* ------------------------------ nvmlSystemGetCudaDriverVersion (l.162-168)
SystemGetCudaDriverVersion(cudaDriverVersion) ==
    IF g_initialized = 0 THEN {Ret(NVML_ERROR_UNINITIALIZED)}
    ELSE IF ~cudaDriverVersion THEN NullStore(Ret(NVML_SUCCESS))
    ELSE {[Ret(NVML_SUCCESS) EXCEPT !.outA = <<FAKE_CUDA_VERSION>>]}

nvmlSystemGetCudaDriverVersion ==
    \E cudaDriverVersion \in Pointers :
      \E r \in SystemGetCudaDriverVersion(cudaDriverVersion) :
        /\ Observe("nvmlSystemGetCudaDriverVersion",
                   [cudaDriverVersion |-> cudaDriverVersion], r)
        /\ UNCHANGED <<g_initialized, g_fake_gpus, session, dev, devSession,
                       devIndex>>

\* --------------------------------------- nvmlDeviceGetCount_v2 (l.170-176)
\* Mutant: the count accumulates over the population loops run so far.
DeviceCountValue_Accumulating == FAKE_GPU_COUNT * session

\* The value stored in *deviceCount.
DeviceCountValue == FAKE_GPU_COUNT

DeviceGetCount(deviceCount) ==
    IF g_initialized = 0 THEN {Ret(NVML_ERROR_UNINITIALIZED)}
    ELSE IF ~deviceCount THEN NullStore(Ret(NVML_SUCCESS))
    ELSE {[Ret(NVML_SUCCESS) EXCEPT !.outA = <<DeviceCountValue>>]}

nvmlDeviceGetCount_v2 ==
    \E deviceCount \in Pointers :
      \E r \in DeviceGetCount(deviceCount) :
        /\ Observe("nvmlDeviceGetCount_v2", [deviceCount |-> deviceCount], r)
        /\ UNCHANGED <<g_initialized, g_fake_gpus, session, dev, devSession,
                       devIndex>>

\* ------------------------------- nvmlDeviceGetHandleByIndex_v2 (l.178-185)
\* Mutant: off by one, index == FAKE_GPU_COUNT passes.
IndexOutOfRange_OffByOne(index) == UGt(index, ToUnsigned(FAKE_GPU_COUNT))

\* if (index >= FAKE_GPU_COUNT)
IndexOutOfRange(index) == UGe(index, ToUnsigned(FAKE_GPU_COUNT))

\* g_fake_gpus[index].handle; past the end of the array the read is undefined
\* and yields whatever lies there.
ReadHandle(index) ==
    IF UBelow(index, FAKE_GPU_COUNT) THEN {g_fake_gpus[index.lo].handle}
    ELSE {NULL, ForgedHandle}

\* Mutant: the argument is validated before the flag.
DeviceGetHandleByIndex_ArgsFirst(index, device) ==
    IF IndexOutOfRange(index) THEN {Ret(NVML_ERROR_INVALID_ARGUMENT)}
    ELSE IF g_initialized = 0 THEN {Ret(NVML_ERROR_UNINITIALIZED)}
    ELSE WithUB(~UBelow(index, FAKE_GPU_COUNT) \/ ~device,
            { [Ret(NVML_SUCCESS) EXCEPT
                  !.devOut = IF device THEN <<h>> ELSE <<>>,
                  !.regRead = {index}] : h \in ReadHandle(index) })

DeviceGetHandleByIndex(index, device) ==
    IF g_initialized = 0 THEN {Ret(NVML_ERROR_UNINITIALIZED)}
    ELSE IF IndexOutOfRange(index) THEN {Ret(NVML_ERROR_INVALID_ARGUMENT)}
    ELSE WithUB(~UBelow(index, FAKE_GPU_COUNT) \/ ~device,
            { [Ret(NVML_SUCCESS) EXCEPT
                  !.devOut = IF device THEN <<h>> ELSE <<>>,
                  !.regRead = {index}] : h \in ReadHandle(index) })

nvmlDeviceGetHandleByIndex_v2 ==
    \E i \in IndexArgs, device \in Pointers :
      \E r \in DeviceGetHandleByIndex(ToUnsigned(i), device) :
        /\ Observe("nvmlDeviceGetHandleByIndex_v2",
                   [index |-> ToUnsigned(i), device |-> device], r)
        /\ dev' = IF r.devOut # <<>> THEN r.devOut[1] ELSE dev
        /\ devSession' = IF r.devOut # <<>> THEN session ELSE devSession
        /\ devIndex' = IF r.devOut # <<>> THEN ToUnsigned(i) ELSE devIndex
        /\ UNCHANGED <<g_initialized, g_fake_gpus, session>>

\* ------------------------------------------- nvmlDeviceGetName (l.187-194)
DeviceGetName(device, name, length) ==
    IF g_initialized = 0 THEN {Ret(NVML_ERROR_UNINITIALIZED)}
    ELSE WithUB(~IsGpuAddr(device) \/ ~name,
            { [Ret(NVML_SUCCESS) EXCEPT
                  !.buf = IF name THEN Strncpy(FreshBuf, d.gpu.name, length)
                          ELSE FreshBuf,
                  !.bufWrites = IF name THEN 1 .. length ELSE {},
                  !.regRead = d.at] : d \in Deref(device) })

nvmlDeviceGetName ==
    \E device \in DeviceArgs, name \in Pointers, length \in Lengths :
      \E r \in DeviceGetName(device, name, length) :
        /\ Observe("nvmlDeviceGetName",
                   [device |-> device, name |-> name, length |-> length], r)
        /\ UNCHANGED <<g_initialized, g_fake_gpus, session, dev, devSession,
                       devIndex>>

\* ------------------------------------------- nvmlDeviceGetUUID (l.196-203)
DeviceGetUUID(device, uuid, length) ==
    IF g_initialized = 0 THEN {Ret(NVML_ERROR_UNINITIALIZED)}
    ELSE WithUB(~IsGpuAddr(device) \/ ~uuid,
            { [Ret(NVML_SUCCESS) EXCEPT
                  !.buf = IF uuid THEN Strncpy(FreshBuf, d.gpu.uuid, length)
                          ELSE FreshBuf,
                  !.bufWrites = IF uuid THEN 1 .. length ELSE {},
                  !.regRead = d.at] : d \in Deref(device) })

nvmlDeviceGetUUID ==
    \E device \in DeviceArgs, uuid \in Pointers, length \in Lengths :
      \E r \in DeviceGetUUID(device, uuid, length) :
        /\ Observe("nvmlDeviceGetUUID",
                   [device |-> device, uuid |-> uuid, length |-> length], r)
        /\ UNCHANGED <<g_initialized, g_fake_gpus, session, dev, devSession,
                       devIndex>>

\* ---------------------------------------- nvmlDeviceGetPciInfo (l.205-212)
DeviceGetPciInfo(device, pci) ==
    IF g_initialized = 0 THEN {Ret(NVML_ERROR_UNINITIALIZED)}
    ELSE WithUB(~IsGpuAddr(device) \/ ~pci,
            { [Ret(NVML_SUCCESS) EXCEPT
                  !.outPci = IF pci THEN <<d.gpu.pci>> ELSE <<>>,
                  !.regRead = d.at] : d \in Deref(device) })

nvmlDeviceGetPciInfo ==
    \E device \in DeviceArgs, pci \in Pointers :
      \E r \in DeviceGetPciInfo(device, pci) :
        /\ Observe("nvmlDeviceGetPciInfo", [device |-> device, pci |-> pci], r)
        /\ UNCHANGED <<g_initialized, g_fake_gpus, session, dev, devSession,
                       devIndex>>

\* -------------------------- nvmlDeviceGetCudaComputeCapability (l.214-225)
\* Mutant: && in place of ||.
EitherNull_BothNull(p, q) == ~p /\ ~q

\* if (major == NULL || minor == NULL); the same test guards the two outputs
\* of nvmlDeviceGetMigCapability (l.247) and nvmlDeviceGetMigMode (l.260).
EitherNull(p, q) == ~p \/ ~q


DeviceGetCudaComputeCapability(device, major, minor) ==
    IF g_initialized = 0 THEN {Ret(NVML_ERROR_UNINITIALIZED)}
    ELSE IF EitherNull(major, minor) THEN {Ret(NVML_ERROR_INVALID_ARGUMENT)}
    ELSE WithUB(~major \/ ~minor,
            {[Ret(NVML_SUCCESS) EXCEPT
                 !.outA = IF major THEN <<7>> ELSE <<>>,
                 !.outB = IF minor THEN <<5>> ELSE <<>>]})

nvmlDeviceGetCudaComputeCapability ==
    \E device \in DeviceArgs, major \in Pointers, minor \in Pointers :
      \E r \in DeviceGetCudaComputeCapability(device, major, minor) :
        /\ Observe("nvmlDeviceGetCudaComputeCapability",
                   [device |-> device, pA |-> major, pB |-> minor], r)
        /\ UNCHANGED <<g_initialized, g_fake_gpus, session, dev, devSession,
                       devIndex>>

\* ------------------------------------------ nvmlDeviceGetBrand (l.227-233)
DeviceGetBrand(device, type) ==
    IF g_initialized = 0 THEN {Ret(NVML_ERROR_UNINITIALIZED)}
    ELSE IF ~type THEN NullStore(Ret(NVML_SUCCESS))
    ELSE {[Ret(NVML_SUCCESS) EXCEPT !.outA = <<NVML_BRAND_TESLA>>]}

nvmlDeviceGetBrand ==
    \E device \in DeviceArgs, type \in Pointers :
      \E r \in DeviceGetBrand(device, type) :
        /\ Observe("nvmlDeviceGetBrand", [device |-> device, type |-> type], r)
        /\ UNCHANGED <<g_initialized, g_fake_gpus, session, dev, devSession,
                       devIndex>>

\* ------------------------------------ nvmlDeviceGetMinorNumber (l.235-242)
\* Mutant: the flag is not checked.
DeviceGetMinorNumber_NoFlagCheck(device, minorNumber) ==
    WithUB(~IsGpuAddr(device) \/ ~minorNumber,
        { [Ret(NVML_SUCCESS) EXCEPT
              !.outA = IF minorNumber THEN <<ToUnsigned(d.gpu.index)>>
                       ELSE <<>>,
              !.regRead = d.at] : d \in Deref(device) })

DeviceGetMinorNumber(device, minorNumber) ==
    IF g_initialized = 0 THEN {Ret(NVML_ERROR_UNINITIALIZED)}
    ELSE WithUB(~IsGpuAddr(device) \/ ~minorNumber,
            { [Ret(NVML_SUCCESS) EXCEPT
                  !.outA = IF minorNumber THEN <<ToUnsigned(d.gpu.index)>>
                           ELSE <<>>,
                  !.regRead = d.at] : d \in Deref(device) })

nvmlDeviceGetMinorNumber ==
    \E device \in DeviceArgs, minorNumber \in Pointers :
      \E r \in DeviceGetMinorNumber(device, minorNumber) :
        /\ Observe("nvmlDeviceGetMinorNumber",
                   [device |-> device, minorNumber |-> minorNumber], r)
        /\ UNCHANGED <<g_initialized, g_fake_gpus, session, dev, devSession,
                       devIndex>>

\* ---------------------------------- nvmlDeviceGetMigCapability (l.244-255)
DeviceGetMigCapability(device, isMigCapable, isMigGpu) ==
    IF g_initialized = 0 THEN {Ret(NVML_ERROR_UNINITIALIZED)}
    ELSE IF EitherNull(isMigCapable, isMigGpu)
         THEN {Ret(NVML_ERROR_INVALID_ARGUMENT)}
    ELSE WithUB(~isMigCapable \/ ~isMigGpu,
            {[Ret(NVML_SUCCESS) EXCEPT
                 !.outA = IF isMigCapable THEN <<0>> ELSE <<>>,
                 !.outB = IF isMigGpu THEN <<0>> ELSE <<>>]})

nvmlDeviceGetMigCapability ==
    \E device \in DeviceArgs, isMigCapable \in Pointers, isMigGpu \in Pointers :
      \E r \in DeviceGetMigCapability(device, isMigCapable, isMigGpu) :
        /\ Observe("nvmlDeviceGetMigCapability",
                   [device |-> device, pA |-> isMigCapable, pB |-> isMigGpu], r)
        /\ UNCHANGED <<g_initialized, g_fake_gpus, session, dev, devSession,
                       devIndex>>

\* ---------------------------------------- nvmlDeviceGetMigMode (l.257-268)
DeviceGetMigMode(device, currentMode, pendingMode) ==
    IF g_initialized = 0 THEN {Ret(NVML_ERROR_UNINITIALIZED)}
    ELSE IF EitherNull(currentMode, pendingMode)
         THEN {Ret(NVML_ERROR_INVALID_ARGUMENT)}
    ELSE WithUB(~currentMode \/ ~pendingMode,
            {[Ret(NVML_SUCCESS) EXCEPT
                 !.outA = IF currentMode THEN <<NVML_FEATURE_DISABLED>> ELSE <<>>,
                 !.outB = IF pendingMode THEN <<NVML_FEATURE_DISABLED>> ELSE <<>>]})

nvmlDeviceGetMigMode ==
    \E device \in DeviceArgs, currentMode \in Pointers, pendingMode \in Pointers :
      \E r \in DeviceGetMigMode(device, currentMode, pendingMode) :
        /\ Observe("nvmlDeviceGetMigMode",
                   [device |-> device, pA |-> currentMode, pB |-> pendingMode], r)
        /\ UNCHANGED <<g_initialized, g_fake_gpus, session, dev, devSession,
                       devIndex>>

\* ------------------------------------------------------ the specification
Next ==
    \/ nvmlInit_v2
    \/ nvmlShutdown
    \/ nvmlErrorString
    \/ nvmlSystemGetDriverVersion
    \/ nvmlSystemGetCudaDriverVersion
    \/ nvmlDeviceGetCount_v2
    \/ nvmlDeviceGetHandleByIndex_v2
    \/ nvmlDeviceGetName
    \/ nvmlDeviceGetUUID
    \/ nvmlDeviceGetPciInfo
    \/ nvmlDeviceGetCudaComputeCapability
    \/ nvmlDeviceGetBrand
    \/ nvmlDeviceGetMinorNumber
    \/ nvmlDeviceGetMigCapability
    \/ nvmlDeviceGetMigMode

Spec == Init /\ [][Next]_vars

\* ================================================================ claims
Succeeded == ret = <<NVML_SUCCESS>>

\* Every operation except nvmlInit_v2, nvmlShutdown and nvmlErrorString.
QueryOps ==
    { "nvmlSystemGetDriverVersion", "nvmlSystemGetCudaDriverVersion",
      "nvmlDeviceGetCount_v2", "nvmlDeviceGetHandleByIndex_v2",
      "nvmlDeviceGetName", "nvmlDeviceGetUUID", "nvmlDeviceGetPciInfo",
      "nvmlDeviceGetCudaComputeCapability", "nvmlDeviceGetBrand",
      "nvmlDeviceGetMinorNumber", "nvmlDeviceGetMigCapability",
      "nvmlDeviceGetMigMode" }

StringOps ==
    {"nvmlSystemGetDriverVersion", "nvmlDeviceGetName", "nvmlDeviceGetUUID"}

\* The queries that dereference their handle.
HandleOps ==
    { "nvmlDeviceGetName", "nvmlDeviceGetUUID", "nvmlDeviceGetPciInfo",
      "nvmlDeviceGetMinorNumber" }

TwoOutputOps ==
    { "nvmlDeviceGetCudaComputeCapability", "nvmlDeviceGetMigCapability",
      "nvmlDeviceGetMigMode" }

\* The output pointer of the last call (of a string or handle operation).
OutPtr ==
    CASE op = "nvmlSystemGetDriverVersion" -> args.version
      [] op = "nvmlDeviceGetName" -> args.name
      [] op = "nvmlDeviceGetUUID" -> args.uuid
      [] op = "nvmlDeviceGetPciInfo" -> args.pci
      [] op = "nvmlDeviceGetMinorNumber" -> args.minorNumber

\* The last call passed the handle the caller holds in dev, and dev was
\* written by a successful GetHandleByIndex.
PassedIssuedHandle == op \in HandleOps /\ args.device = dev /\ devSession >= 1

\* ---- C1
\* C1: a step that calls nvmlInit_v2 returns Success and sets the flag exactly
\* when the flag was false, and AlreadyInitialized (flag kept) otherwise; a
\* step that calls nvmlShutdown returns Success and clears the flag exactly
\* when the flag was true, and Uninitialized otherwise. Hence Initialize
\* right after a successful Initialize returns AlreadyInitialized, and
\* Shutdown right after a successful Shutdown returns Uninitialized, in every
\* session.
C1_Lifecycle ==
    [][ /\ op' = "nvmlInit_v2" =>
             IF g_initialized = 0
             THEN ret' = <<NVML_SUCCESS>> /\ g_initialized' = 1
             ELSE /\ ret' = <<NVML_ERROR_ALREADY_INITIALIZED>>
                  /\ g_initialized' = g_initialized
        /\ op' = "nvmlShutdown" =>
             IF g_initialized # 0
             THEN ret' = <<NVML_SUCCESS>> /\ g_initialized' = 0
             ELSE /\ ret' = <<NVML_ERROR_UNINITIALIZED>>
                  /\ g_initialized' = 0
        /\ (op = "nvmlInit_v2" /\ Succeeded /\ op' = "nvmlInit_v2")
             => ret' = <<NVML_ERROR_ALREADY_INITIALIZED>>
        /\ (op = "nvmlShutdown" /\ Succeeded /\ op' = "nvmlShutdown")
             => ret' = <<NVML_ERROR_UNINITIALIZED>>
      ]_vars

\* Shutdown twice in a row in the second session: Success, then Uninitialized.
C1_Witness ==
    /\ twice
    /\ op = "nvmlShutdown"
    /\ ret = <<NVML_ERROR_UNINITIALIZED>>
    /\ session >= 2

\* ---- C2
\* C2: a step that calls a query operation while the flag is false returns
\* Uninitialized whatever the arguments, writes no output location (buffer,
\* integer outputs, PCI record, handle variable), reads no registry record
\* and does not fault.
C2_UninitializedFirst ==
    [][ (g_initialized = 0 /\ op' \in QueryOps) =>
            /\ ret' = <<NVML_ERROR_UNINITIALIZED>>
            /\ buf' = FreshBuf /\ bufWrites' = {}
            /\ outA' = <<>> /\ outB' = <<>> /\ outPci' = <<>>
            /\ dev' = dev /\ devSession' = devSession
            /\ regRead' = {}
            /\ ~crashed'
      ]_vars

\* After a Shutdown, GetHandleByIndex with an out-of-range index and a null
\* output pointer returned Uninitialized.
C2_Witness ==
    /\ g_initialized = 0
    /\ session >= 1
    /\ op = "nvmlDeviceGetHandleByIndex_v2"
    /\ ~UBelow(args.index, FAKE_GPU_COUNT)
    /\ ~args.device
    /\ ret = <<NVML_ERROR_UNINITIALIZED>>

\* The last call was a string-output operation that read a string of the
\* shim (not memory behind a pointer the shim never issued) into the
\* caller's buffer.
StringCallOnValidArgs ==
    /\ op \in StringOps
    /\ OutPtr
    /\ op # "nvmlSystemGetDriverVersion" => IsGpuAddr(args.device)

\* ---- C3
\* C3: after a string-output operation (GetDriverVersion, GetDeviceName,
\* GetDeviceUUID) returned Success with length >= 1, one of the first
\* `length` bytes of the caller's buffer is the null terminator.
C3_TerminatorWithinLength ==
    (StringCallOnValidArgs /\ Succeeded /\ args.length >= 1)
        => \E k \in 1 .. args.length : buf[k] = 0

\* ---- C4
\* C4: the calls Initialize, GetDeviceCount, GetHandleByIndex(0),
\* GetDeviceName(handle, 4-byte buffer), Shutdown, GetDeviceCount give
\* Success; count 4; Success; "NVI" and a terminator; Success; Uninitialized.
\* And for every length L from 1 to the length of the name, GetDeviceName
\* leaves the first L-1 characters of the name and then a terminator.
C4_EnumerationScenario ==
    /\ scen = 1 => Succeeded
    /\ scen = 2 => Succeeded /\ outA = <<4>>
    /\ scen = 3 => Succeeded /\ dev = AddrOf(0)
    /\ scen = 4 => /\ Succeeded
                   /\ SubSeq(buf, 1, 4) = SubSeq(FAKE_GPU_NAME, 1, 3) \o <<0>>
    /\ scen = 5 => Succeeded
    /\ scen = 6 => ret = <<NVML_ERROR_UNINITIALIZED>>
    /\ ( /\ op = "nvmlDeviceGetName"
         /\ StringCallOnValidArgs
         /\ Succeeded
         /\ args.length >= 1
         /\ args.length <= Len(FAKE_GPU_NAME) )
        => SubSeq(buf, 1, args.length)
             = SubSeq(FAKE_GPU_NAME, 1, args.length - 1) \o <<0>>

\* ---- C5
\* C5 as stated, for the handles GetHandleByIndex issued: such a handle is
\* accepted by a handle-taking query if and only if it was issued in the
\* current session and the shim is still initialized; a handle of an earlier
\* session is refused.
C5_OnlyCurrentSession ==
    (PassedIssuedHandle /\ OutPtr)
        => (Succeeded <=> (devSession = session /\ g_initialized = 1))

\* C5 amended: a handle that GetHandleByIndex issued, in whichever session,
\* is accepted by the handle-taking queries if and only if the flag is true
\* when the query is called (Uninitialized otherwise); the session that
\* issued it is not checked, and the query reads the record the handle was
\* issued for.
C5_FlagAloneDecides ==
    (PassedIssuedHandle /\ OutPtr)
        => /\ ~crashed
           /\ ret = IF g_initialized = 1 THEN <<NVML_SUCCESS>>
                    ELSE <<NVML_ERROR_UNINITIALIZED>>
           /\ Succeeded => regRead = {devIndex}

\* A handle issued in the first session was accepted in the second.
C5_Witness ==
    /\ PassedIssuedHandle
    /\ OutPtr
    /\ devSession < session
    /\ g_initialized = 1
    /\ Succeeded

\* ---- C6
\* C6: in any session, GetHandleByIndex(i) with 0 <= i < count succeeds and
\* hands out a handle; GetMinorNumber on a handle that GetHandleByIndex(i)
\* returned yields exactly i; and the handles of distinct indexes are
\* distinct.
C6_HandleRoundTrip ==
    /\ ( /\ op = "nvmlDeviceGetHandleByIndex_v2"
         /\ g_initialized = 1
         /\ UBelow(args.index, FAKE_GPU_COUNT)
         /\ args.device )
        => /\ Succeeded
           /\ devIndex = args.index
           /\ dev = g_fake_gpus[args.index.lo].handle
    /\ ( /\ op = "nvmlDeviceGetMinorNumber"
         /\ PassedIssuedHandle
         /\ args.minorNumber
         /\ Succeeded )
        => outA = <<devIndex>>
    /\ g_initialized = 1 =>
         \A i, j \in GpuIndexes :
            i # j => g_fake_gpus[i].handle # g_fake_gpus[j].handle

\* In the second session, GetMinorNumber on the handle of index 3 gave 3.
C6_Witness ==
    /\ op = "nvmlDeviceGetMinorNumber"
    /\ PassedIssuedHandle
    /\ devSession = 2
    /\ devIndex = ToUnsigned(3)
    /\ outA = <<ToUnsigned(3)>>

\* ---- C7
\* C7: a step that calls GetHandleByIndex while initialized with an index
\* that is not below the count (the count itself, a larger value, or
\* 2^32 - 1, the unsigned value of -1) returns InvalidArgument, leaves the
\* handle output unwritten and reads no registry record; and no call ever
\* reads the registry at a subscript outside [0, count).
C7_IndexRangeChecked ==
    [][ /\ ( /\ op' = "nvmlDeviceGetHandleByIndex_v2"
             /\ g_initialized = 1
             /\ ~UBelow(args'.index, FAKE_GPU_COUNT) )
            => /\ ret' = <<NVML_ERROR_INVALID_ARGUMENT>>
               /\ dev' = dev /\ devSession' = devSession
               /\ devIndex' = devIndex
               /\ regRead' = {}
               /\ ~crashed'
        /\ \A u \in regRead' : UBelow(u, FAKE_GPU_COUNT)
      ]_vars

\* GetHandleByIndex((unsigned)-1) while initialized returned InvalidArgument.
C7_Witness ==
    /\ op = "nvmlDeviceGetHandleByIndex_v2"
    /\ g_initialized = 1
    /\ args.index = [hi |-> HalfWord - 1, lo |-> HalfWord - 1]
    /\ ret = <<NVML_ERROR_INVALID_ARGUMENT>>

\* ---- C8
\* C8: every successful GetDeviceCount stores 4 in the count output, in every
\* session and whatever was called before.
C8_CountIsConstant ==
    (op = "nvmlDeviceGetCount_v2" /\ Succeeded /\ args.deviceCount)
        => outA = <<4>>

\* GetDeviceCount stored 4 in the second session.
C8_Witness ==
    /\ op = "nvmlDeviceGetCount_v2"
    /\ Succeeded
    /\ args.deviceCount
    /\ session = 2
    /\ outA = <<4>>

\* ---- C9
\* The fixed values of the two outputs of each two-output query.
FixedPair ==
    CASE op = "nvmlDeviceGetCudaComputeCapability" -> <<7, 5>>
      [] op = "nvmlDeviceGetMigCapability" -> <<0, 0>>
      [] op = "nvmlDeviceGetMigMode" -> <<0, 0>>

\* C9: GetComputeCapability, GetMigCapability and GetMigMode called while
\* initialized return InvalidArgument and write neither output when either
\* output pointer is null, and return Success with the fixed values in both
\* outputs when both are non-null.
C9_TwoOutputs ==
    (op \in TwoOutputOps /\ g_initialized = 1) =>
        /\ ~crashed
        /\ IF ~args.pA \/ ~args.pB
           THEN /\ ret = <<NVML_ERROR_INVALID_ARGUMENT>>
                /\ outA = <<>> /\ outB = <<>>
           ELSE /\ Succeeded
                /\ outA = <<FixedPair[1]>> /\ outB = <<FixedPair[2]>>

\* GetComputeCapability with a null minor output: InvalidArgument, and the
\* major output untouched.
C9_Witness ==
    /\ op = "nvmlDeviceGetCudaComputeCapability"
    /\ g_initialized = 1
    /\ args.pA /\ ~args.pB
    /\ ret = <<NVML_ERROR_INVALID_ARGUMENT>>
    /\ outA = <<>>

\* ---- C10
\* C10: a step that calls TranslateError returns a string and no result
\* code (so never Uninitialized), does not fault, and changes neither the
\* flag nor the registry; for an integer that is no code of the enumeration
\* the string is "Unknown Error", whether the flag is false or true.
C10_UnknownCodes ==
    [][ op' = "nvmlErrorString" =>
            /\ ret' = <<>>
            /\ ~crashed'
            /\ g_initialized' = g_initialized
            /\ g_fake_gpus' = g_fake_gpus
            /\ args'.result \notin nvmlReturn_t => label' = "Unknown Error"
      ]_vars

\* After a Shutdown, TranslateError of a code outside the enumeration gave
\* the generic label.
C10_Witness ==
    /\ op = "nvmlErrorString"
    /\ args.result \notin nvmlReturn_t
    /\ label = "Unknown Error"
    /\ g_initialized = 0
    /\ session >= 1

\* ---- C11
\* C11: TranslateError of a code of the enumeration returns a string that no
\* other code of the enumeration translates to, and, except for the code
\* "unknown" itself, not the generic string that unrecognized codes get.
C11_KnownCodesOwnString ==
    (op = "nvmlErrorString" /\ args.result \in nvmlReturn_t) =>
        /\ \A c \in nvmlReturn_t \ {args.result} : ErrorString(c) # label
        /\ args.result # NVML_ERROR_UNKNOWN => label # "Unknown Error"

\* ---- C12
\* C12: after any call of a string-output operation with a buffer, whatever
\* the source string, every byte of the caller's buffer at offset >= length
\* still holds its value of before the call (no offset >= length is
\* written), and with length 0 the whole buffer is untouched.
C12_NoWritePastLength ==
    (op \in StringOps /\ OutPtr /\ ~crashed) =>
        /\ \A k \in 1 .. BufCap : k > args.length => buf[k] = FreshBuf[k]
        /\ \A k \in bufWrites : k <= args.length
        /\ args.length = 0 => buf = FreshBuf

\* GetDeviceUUID with length 4 wrote byte 4 of the buffer and left byte 5.
C12_Witness ==
    /\ op = "nvmlDeviceGetUUID"
    /\ OutPtr
    /\ Succeeded
    /\ IsGpuAddr(args.device)
    /\ args.length = 4
    /\ buf[4] # FreshBuf[4]
    /\ buf[5] = FreshBuf[5]

\* ---- C13
\* C13: a step that calls a query operation or TranslateError leaves the
\* flag and the registry as they were, whether it succeeds or fails; so do
\* an Initialize that returns AlreadyInitialized and a Shutdown that returns
\* Uninitialized; a successful Shutdown leaves the registry as it was; only
\* a successful Initialize writes the registry.
C13_Frame ==
    [][ /\ op' \notin {"nvmlInit_v2", "nvmlShutdown"}
            => g_initialized' = g_initialized /\ g_fake_gpus' = g_fake_gpus
        /\ (op' = "nvmlInit_v2" /\ ret' # <<NVML_SUCCESS>>)
            => g_initialized' = g_initialized /\ g_fake_gpus' = g_fake_gpus
        /\ op' = "nvmlShutdown" => g_fake_gpus' = g_fake_gpus
        /\ (op' = "nvmlShutdown" /\ ret' # <<NVML_SUCCESS>>)
            => g_initialized' = g_initialized
      ]_vars

\* An Initialize returned AlreadyInitialized and the registry is populated.
C13_Witness ==
    /\ op = "nvmlInit_v2"
    /\ ret = <<NVML_ERROR_ALREADY_INITIALIZED>>
    /\ g_initialized = 1
    /\ \A i \in GpuIndexes : g_fake_gpus[i].handle = AddrOf(i)

\* ---- C15
\* The value of a hexadecimal digit character (16 when it is none).
HexDigit(c) ==
    IF c >= 48 /\ c <= 57 THEN c - 48
    ELSE IF c >= 97 /\ c <= 102 THEN c - 87
    ELSE IF c >= 65 /\ c <= 70 THEN c - 55
    ELSE 16

\* The text t has the shape dddddddd:bb:dd.f of a PCI bus id.
IsBusId(t) ==
    /\ Len(t) = 16
    /\ t[9] = 58 /\ t[12] = 58 /\ t[15] = 46
    /\ \A k \in (1 .. 16) \ {9, 12, 15} : HexDigit(t[k]) < 16

\* The bus number a bus-id text names (its field bb).
BusOfBusId(t) == 16 * HexDigit(t[10]) + HexDigit(t[11])

C16_Deterministic ==
    [][ /\ (op' = "nvmlInit_v2" /\ ret' = <<NVML_SUCCESS>> /\ session >= 1)
            => g_fake_gpus' = g_fake_gpus
        /\ ( /\ op' = "nvmlDeviceGetHandleByIndex_v2"
             /\ ret' = <<NVML_SUCCESS>>
             /\ args'.device
             /\ devSession >= 1
             /\ args'.index = devIndex )
            => dev' = dev
      ]_vars

\* The second successful Initialize.
C16_Witness ==
    /\ op = "nvmlInit_v2"
    /\ Succeeded
    /\ session = 2
    /\ devSession = 1

\* ================================================== concurrent callers
\* Two threads call nvmlInit_v2, nvmlShutdown and
\* nvmlDeviceGetHandleByIndex_v2 with no synchronization: the code takes no
\* lock, and g_initialized and g_fake_gpus are plain objects (l.103-104). A
\* call is a sequence of steps, one per access to the shared objects, and
\* the steps of the threads interleave.

\* Thread t starts a call of o; the history fields note the flag and the
\* number of flag stores at that moment.
StartCall(t, o, index) ==
    /\ thr[t].pc = "idle"
    /\ thr' = [thr EXCEPT ![t] =
                 [IdleThread EXCEPT !.pc = "test", !.op = o, !.index = index,
                                    !.gen0 = gen, !.flag0 = g_initialized]]
    /\ UNCHANGED <<g_initialized, g_fake_gpus, gen, callerVars, drvVars>>

\* Thread t returns code c.
Returned(t, c) == [thr[t] EXCEPT !.pc = "returned", !.ret = <<c>>]

\* The callers make at most this many stores to the flag.
MaxFlagStores == 3

CallInit(t) == gen < MaxFlagStores /\ StartCall(t, "nvmlInit_v2", 0)

CallShutdown(t) == gen < MaxFlagStores /\ StartCall(t, "nvmlShutdown", 0)

CallGetHandle(t) ==
    /\ thr[t].pc = "idle"
    /\ \E index \in GpuIndexes :
          StartCall(t, "nvmlDeviceGetHandleByIndex_v2", index)

\* if (g_initialized) return NVML_ERROR_ALREADY_INITIALIZED;  (l.110)
InitTest(t) ==
    /\ thr[t].pc = "test" /\ thr[t].op = "nvmlInit_v2"
    /\ thr' = [thr EXCEPT ![t] =
                 IF g_initialized # 0
                 THEN Returned(t, NVML_ERROR_ALREADY_INITIALIZED)
                 ELSE [thr[t] EXCEPT !.pc = "populate"]]
    /\ UNCHANGED <<g_initialized, g_fake_gpus, gen, callerVars, drvVars>>

\* One iteration of the population loop (l.111-122).
InitPopulate(t) ==
    /\ thr[t].pc = "populate"
    /\ thr[t].i < FAKE_GPU_COUNT
    /\ g_fake_gpus' = [g_fake_gpus EXCEPT
                          ![thr[t].i] = InitGpu(g_fake_gpus[thr[t].i], thr[t].i)]
    /\ thr' = [thr EXCEPT ![t].i = thr[t].i + 1]
    /\ UNCHANGED <<g_initialized, gen, callerVars, drvVars>>

\* May the store g_initialized = 1 of thread t take effect now? In program
\* order it follows the loop. The stores are plain and race with the reads of
\* the other thread (undefined behaviour): neither the compiler, which sees
\* that snprintf cannot access the static flag, nor the processor is bound to
\* make them visible in program order, so the flag store may also take
\* effect while records are still unwritten.
FlagStoreMayTakeEffect(t) == TRUE

\* g_initialized = 1;  (l.123)
InitSetFlag(t) ==
    /\ thr[t].pc = "populate"
    /\ ~thr[t].stored
    /\ thr[t].i = FAKE_GPU_COUNT \/ FlagStoreMayTakeEffect(t)
    /\ g_initialized' = 1
    /\ gen' = gen + 1
    /\ thr' = [thr EXCEPT ![t].stored = TRUE]
    /\ UNCHANGED <<g_fake_gpus, callerVars, drvVars>>

\* return NVML_SUCCESS;  (l.125)
InitReturn(t) ==
    /\ thr[t].pc = "populate"
    /\ thr[t].i = FAKE_GPU_COUNT
    /\ thr[t].stored
    /\ thr' = [thr EXCEPT ![t] = Returned(t, NVML_SUCCESS)]
    /\ UNCHANGED <<g_initialized, g_fake_gpus, gen, callerVars, drvVars>>

\* if (!g_initialized) return NVML_ERROR_UNINITIALIZED;  (l.130)
ShutdownTest(t) ==
    /\ thr[t].pc = "test" /\ thr[t].op = "nvmlShutdown"
    /\ thr' = [thr EXCEPT ![t] =
                 IF g_initialized = 0
                 THEN Returned(t, NVML_ERROR_UNINITIALIZED)
                 ELSE [thr[t] EXCEPT !.pc = "clear"]]
    /\ UNCHANGED <<g_initialized, g_fake_gpus, gen, callerVars, drvVars>>

\* g_initialized = 0; return NVML_SUCCESS;  (l.131-133)
ShutdownClear(t) ==
    /\ thr[t].pc = "clear"
    /\ g_initialized' = 0
    /\ gen' = gen + 1
    /\ thr' = [thr EXCEPT ![t] = Returned(t, NVML_SUCCESS)]
    /\ UNCHANGED <<g_fake_gpus, callerVars, drvVars>>

\* if (!g_initialized) return NVML_ERROR_UNINITIALIZED;  (l.180)
GetHandleTest(t) ==
    /\ thr[t].pc = "test" /\ thr[t].op = "nvmlDeviceGetHandleByIndex_v2"
    /\ thr' = [thr EXCEPT ![t] =
                 IF g_initialized = 0
                 THEN Returned(t, NVML_ERROR_UNINITIALIZED)
                 ELSE [thr[t] EXCEPT !.pc = "read"]]
    /\ UNCHANGED <<g_initialized, g_fake_gpus, gen, callerVars, drvVars>>

\* The index test and *device = g_fake_gpus[index].handle;  (l.181-184)
GetHandleRead(t) ==
    /\ thr[t].pc = "read"
    /\ thr' = [thr EXCEPT ![t] =
                 IF IndexOutOfRange(ToUnsigned(thr[t].index))
                 THEN Returned(t, NVML_ERROR_INVALID_ARGUMENT)
                 ELSE [Returned(t, NVML_SUCCESS) EXCEPT
                          !.out = <<g_fake_gpus[thr[t].index].handle>>]]
    /\ UNCHANGED <<g_initialized, g_fake_gpus, gen, callerVars, drvVars>>

\* The caller on thread t takes the result and is free to call again.
TakeResult(t) ==
    /\ thr[t].pc = "returned"
    /\ thr' = [thr EXCEPT ![t] = IdleThread]
    /\ UNCHANGED <<g_initialized, g_fake_gpus, gen, callerVars, drvVars>>

NextConc ==
    \E t \in Threads :
        \/ CallInit(t)
        \/ CallShutdown(t)
        \/ CallGetHandle(t)
        \/ InitTest(t)
        \/ InitPopulate(t)
        \/ InitSetFlag(t)
        \/ InitReturn(t)
        \/ ShutdownTest(t)
        \/ ShutdownClear(t)
        \/ GetHandleTest(t)
        \/ GetHandleRead(t)
        \/ TakeResult(t)

SpecConc == Init /\ [][NextConc]_vars

\* Threads t and u have both returned from a call of o that each started
\* when the flag was f, with no store to the flag between the two starts:
\* the two calls ran concurrently from the same state.
ConcurrentPair(t, u, o, f) ==
    /\ t # u
    /\ thr[t].pc = "returned" /\ thr[u].pc = "returned"
    /\ thr[t].op = o /\ thr[u].op = o
    /\ thr[t].flag0 = f /\ thr[u].flag0 = f
    /\ thr[t].gen0 = thr[u].gen0

\* ---- C14
\* C14: of two Initialize calls that run concurrently from the uninitialized
\* state exactly one returns Success and the other AlreadyInitialized; of
\* two Shutdown calls that run concurrently from the initialized state
\* exactly one returns Success and the other Uninitialized.
C14_AtomicTestAndSet ==
    \A t, u \in Threads :
        /\ ConcurrentPair(t, u, "nvmlInit_v2", 0)
             => {thr[t].ret, thr[u].ret}
                  = {<<NVML_SUCCESS>>, <<NVML_ERROR_ALREADY_INITIALIZED>>}
        /\ ConcurrentPair(t, u, "nvmlShutdown", 1)
             => {thr[t].ret, thr[u].ret}
                  = {<<NVML_SUCCESS>>, <<NVML_ERROR_UNINITIALIZED>>}

ENOMEM == 12
EFAULT == 14

\* The module is loaded at most this many times.
MaxLoads == 2

\* "Driver Version: 535.104.05\n" as it lies in memory, NUL included (l.10).
g_fake_version_string ==
    Literal(<<68, 114, 105, 118, 101, 114, 32, 86, 101, 114, 115, 105, 111,
              110, 58, 32>> \o FAKE_DRIVER_VERSION \o <<10>>)

\* The nodes the module creates, by their path under /proc.
ProcNvidiaDir == "driver/nvidia"
ProcVersion == "driver/nvidia/version"
ProcGpusDir == "driver/nvidia/gpus"
ProcDeviceDir == "driver/nvidia/gpus/0000:00:00.0"

Hierarchy == {ProcNvidiaDir, ProcVersion, ProcGpusDir, ProcDeviceDir}

\* The directory each node lies in.
ParentOf ==
    [n \in Hierarchy |->
        CASE n = ProcVersion -> ProcNvidiaDir
          [] n = ProcGpusDir -> ProcNvidiaDir
          [] n = ProcDeviceDir -> ProcGpusDir
          [] OTHER -> NoEntry]

\* Node n is d or lies below d.
RECURSIVE IsUnder(_, _)
IsUnder(n, d) == n = d \/ (n \in Hierarchy /\ IsUnder(ParentOf[n], d))

\* proc_mkdir / proc_create of node n: the entry, or NULL when the kernel
\* could not create it (failing holds the creations that fail).
ProcCreate(fs, n, failing) ==
    IF n \in failing
    THEN [fs |-> fs, entry |-> NoEntry]
    ELSE [fs |-> fs \cup {n}, entry |-> n]

\* fake_nvidia_init (l.23-47): the tree it leaves, the pointer it keeps and
\* the value it returns.
ModuleInit(fs, failing) ==
    LET top == ProcCreate(fs, ProcNvidiaDir, failing)                \* l.29
        ver == ProcCreate(top.fs, ProcVersion, failing)              \* l.36
        gpus == ProcCreate(ver.fs, ProcGpusDir, failing)             \* l.37
        device == IF gpus.entry # NoEntry                            \* l.39
                  THEN ProcCreate(gpus.fs, ProcDeviceDir, failing)   \* l.42
                  ELSE gpus
    IN  IF top.entry = NoEntry
        THEN [fs |-> top.fs, dir |-> NoEntry, r |-> -ENOMEM]         \* l.30-33
        ELSE [fs |-> device.fs, dir |-> top.entry, r |-> 0]          \* l.46

\* insmod: the kernel runs fake_nvidia_init; the module stays loaded when it
\* returns 0.
fake_nvidia_init ==
    /\ modState = "unloaded"
    /\ loads < MaxLoads
    /\ \E failing \in SUBSET Hierarchy :
          LET m == ModuleInit(procfs, failing)
          IN  /\ procfs' = m.fs
              /\ g_proc_nvidia_dir' = m.dir
              /\ initRet' = <<m.r>>
              /\ modState' = IF m.r = 0 THEN "loaded" ELSE "unloaded"
    /\ loads' = loads + 1
    /\ UNCHANGED <<rd, g_initialized, g_fake_gpus, callerVars, concVars>>

\* proc_remove(dir): dir and everything below it.
ProcRemove(fs, dir) == {n \in fs : ~IsUnder(n, dir)}

\* rmmod: the kernel runs fake_nvidia_exit (l.50-59).
fake_nvidia_exit ==
    /\ modState = "loaded"
    /\ procfs' = IF g_proc_nvidia_dir # NoEntry
                 THEN ProcRemove(procfs, g_proc_nvidia_dir)
                 ELSE procfs
    /\ modState' = "unloaded"
    /\ UNCHANGED <<g_proc_nvidia_dir, initRet, loads, rd, g_initialized,
                   g_fake_gpus, callerVars, concVars>>

\* The byte counts a reader asks for.
ReadCounts == {0, 1, 16, 28, 64}

\* simple_read_from_buffer(to, count, ppos, from, available): the bytes
\* copied, the new offset and the value returned. faults: the user buffer
\* cannot be written.
SimpleReadFromBuffer(count, pos, from, available, faults) ==
    IF pos >= available \/ count = 0
    THEN [pos |-> pos, ret |-> <<0>>, data |-> <<>>]
    ELSE LET n == Min(count, available - pos)
         IN  IF faults
             THEN [pos |-> pos, ret |-> <<-EFAULT>>, data |-> <<>>]
             ELSE [pos |-> pos + n, ret |-> <<n>>,
                   data |-> SubSeq(from, pos + 1, pos + n)]

\* A process opens /proc/driver/nvidia/version: the offset starts at 0.
proc_version_open ==
    /\ ProcVersion \in procfs
    /\ rd' = [pos |-> 0, ret |-> <<>>, data |-> <<>>]
    /\ UNCHANGED <<procfs, g_proc_nvidia_dir, modState, initRet, loads,
                   g_initialized, g_fake_gpus, callerVars, concVars>>

\* proc_version_read (l.13-15).
proc_version_read ==
    /\ ProcVersion \in procfs
    /\ \E count \in ReadCounts, faults \in BOOLEAN :
          rd' = SimpleReadFromBuffer(count, rd.pos, g_fake_version_string,
                                     Len(g_fake_version_string), faults)
    /\ UNCHANGED <<procfs, g_proc_nvidia_dir, modState, initRet, loads,
                   g_initialized, g_fake_gpus, callerVars, concVars>>

NextDriver ==
    \/ fake_nvidia_init
    \/ fake_nvidia_exit
    \/ proc_version_open
    \/ proc_version_read

SpecDriver == Init /\ [][NextDriver]_vars

\* ---- C18
\* C18: whenever the module is loaded (fake_nvidia_init returned 0) the four
\* nodes of the hierarchy exist, whichever creations failed; whenever
\* fake_nvidia_init returned an error no node is left; and once the module
\* is unloaded no node remains.
C18_AllOrNothing ==
    /\ modState = "loaded" => procfs = Hierarchy
    /\ (initRet # <<>> /\ initRet # <<0>>) => procfs = {}
    /\ modState = "unloaded" => procfs = {}
====
